---- MODULE Spec2Model ----
(***************************************************************************)
(* Model of utils/udp_sender.py: the send_udp function and the command     *)
(* line entry point that calls it once.  Texts (host, port, message and    *)
(* every other argument) are sequences of Unicode code points; payloads    *)
(* are sequences of bytes.                                                  *)
(***************************************************************************)
EXTENDS Integers, Sequences, FiniteSets, TLC

VARIABLES argv, env, listener, pc, args, data, portnum, sock, nfds, open,
          ret, exc, wire, delivered, stdout, stderr, events, exitCode, calls

vars == <<argv, env, listener, pc, args, data, portnum, sock, nfds, open,
          ret, exc, wire, delivered, stdout, stderr, events, exitCode, calls>>

(* ---------------------------- bounds ----------------------------------- *)

\* largest number of positional arguments on the command line
MaxArgs == 4

\* largest number of consecutive send_udp calls made by a library caller
MaxCalls == 2

(* ---------------------------- texts ------------------------------------ *)

ProgName == <<117, 100, 112>>                       \* "udp"  (sys.argv[0])
Localhost == <<49, 50, 55, 46, 48, 46, 48, 46, 49>> \* "127.0.0.1"
Port65535 == <<54, 53, 53, 51, 53>>                 \* "65535"
Port65536 == <<54, 53, 53, 51, 54>>                 \* "65536"
PortQuirk == <<32, 43, 56, 95, 48>>                 \* " +8_0"  (int() gives 80)
NotAPort == <<110, 111, 116, 97, 112, 111, 114, 116>> \* "notaport"
EmptyText == <<>>                                   \* ""
NonAscii == <<233, 8364, 128512>>                   \* U+00E9 U+20AC U+1F600
Surrogate == <<56448>>                              \* lone U+DC80 (surrogateescape)

Texts == {Localhost, Port65535, Port65536, PortQuirk, NotAPort, EmptyText,
          NonAscii, Surrogate}

\* hosts the resolver of the environment maps to an IPv4 address
Resolvable == {Localhost, EmptyText}

(* ------------------------ int(port) ------------------------------------ *)

IsSpace(c) == c \in {9, 10, 11, 12, 13, 32}

IsDigit(c) == c \in 48..57

RECURSIVE LStrip(_)
LStrip(s) == IF s # <<>> /\ IsSpace(Head(s)) THEN LStrip(Tail(s)) ELSE s

RECURSIVE RStrip(_)
RStrip(s) == IF s # <<>> /\ IsSpace(s[Len(s)])
             THEN RStrip(SubSeq(s, 1, Len(s) - 1)) ELSE s

\* the digits of a literal, after the sign: digits with single underscores
\* between them
WellFormedDigits(s) ==
    /\ s # <<>>
    /\ IsDigit(s[1])
    /\ IsDigit(s[Len(s)])
    /\ \A i \in 1..Len(s) : IsDigit(s[i]) \/ s[i] = 95
    /\ \A i \in 1..(Len(s) - 1) : ~(s[i] = 95 /\ s[i + 1] = 95)

RECURSIVE DigitsValue(_, _)
DigitsValue(s, acc) ==
    IF s = <<>> THEN acc
    ELSE IF Head(s) = 95 THEN DigitsValue(Tail(s), acc)
    ELSE DigitsValue(Tail(s), acc * 10 + (Head(s) - 48))

\* int(port) for a text: [ok |-> FALSE] stands for ValueError
ParseInt(p) ==
    LET t == RStrip(LStrip(p))
        signed == t # <<>> /\ t[1] \in {43, 45}
        body == IF signed THEN Tail(t) ELSE t
    IN  IF WellFormedDigits(body)
        THEN [ok |-> TRUE,
              val |-> IF signed /\ t[1] = 45 THEN 0 - DigitsValue(body, 0)
                      ELSE DigitsValue(body, 0)]
        ELSE [ok |-> FALSE, val |-> 0]

(* --------------------- message.encode('utf-8') ------------------------- *)

IsSurrogate(c) == c \in 55296..57343

EncodeCodePoint(c) ==
    IF c < 128 THEN <<c>>
    ELSE IF c < 2048 THEN <<192 + (c \div 64), 128 + (c % 64)>>
    ELSE IF c < 65536
         THEN <<224 + (c \div 4096), 128 + ((c \div 64) % 64), 128 + (c % 64)>>
    ELSE <<240 + (c \div 262144), 128 + ((c \div 4096) % 64),
           128 + ((c \div 64) % 64), 128 + (c % 64)>>

RECURSIVE EncodeBytes(_)
EncodeBytes(m) ==
    IF m = <<>> THEN <<>> ELSE EncodeCodePoint(Head(m)) \o EncodeBytes(Tail(m))

\* the payload framed with a trailing newline
EncodeUtf8_Framed(m) ==
    IF \E i \in 1..Len(m) : IsSurrogate(m[i])
    THEN [ok |-> FALSE, bytes |-> <<>>]
    ELSE [ok |-> TRUE, bytes |-> EncodeBytes(m) \o <<10>>]

\* message.encode('utf-8'): [ok |-> FALSE] stands for UnicodeEncodeError
EncodeUtf8(m) ==
    IF \E i \in 1..Len(m) : IsSurrogate(m[i])
    THEN [ok |-> FALSE, bytes |-> <<>>]
    ELSE [ok |-> TRUE, bytes |-> EncodeBytes(m)]

(* ------------------------- output lines -------------------------------- *)

UsageLine == "Usage: python udp_sender.py HOST PORT MESSAGE"

ErrorLine(e) == [prefix |-> "Error: ", details |-> e]

\* what the interpreter writes for an exception nobody caught
TracebackLine(e) == [prefix |-> "Traceback", details |-> e]

Event(op, fd) == [op |-> op, fd |-> fd]

Datagram(fd, h, pn, bytes) == [fd |-> fd, host |-> h, port |-> pn, payload |-> bytes]

(* ------------------------- initial states ------------------------------ *)

Envs == [sockFail : BOOLEAN, sendFail : BOOLEAN]

ArgLists == UNION {[1..n -> Texts] : n \in 0..MaxArgs}

InitCommon ==
    /\ listener \in BOOLEAN
    /\ args = <<>>
    /\ data = <<>>
    /\ portnum = 0
    /\ sock = 0
    /\ nfds = 0
    /\ open = {}
    /\ ret = "none"
    /\ exc = "none"
    /\ wire = <<>>
    /\ delivered = <<>>
    /\ stdout = <<>>
    /\ stderr = <<>>
    /\ events = <<>>
    /\ exitCode = -1
    /\ calls = <<>>

\* the process started from the command line
Init ==
    /\ argv \in {<<ProgName>> \o a : a \in ArgLists}
    /\ env \in Envs
    /\ pc = "main"
    /\ InitCommon

(* ------------------------- send_udp ------------------------------------ *)

\* a socket kept from the previous call instead of a fresh one
SocketCreate_Reuse ==
    /\ pc = "socket"
    /\ IF env.sockFail
       THEN /\ exc' = "OSError"
            /\ pc' = "raised"
            /\ UNCHANGED <<sock, nfds, open, events>>
       ELSE IF nfds >= 1
       THEN /\ sock' = 1
            /\ pc' = "encode"
            /\ UNCHANGED <<nfds, open, events, exc>>
       ELSE /\ sock' = nfds + 1
            /\ nfds' = nfds + 1
            /\ open' = open \cup {nfds + 1}
            /\ events' = Append(events, Event("open", nfds + 1))
            /\ pc' = "encode"
            /\ exc' = exc
    /\ UNCHANGED <<argv, env, listener, args, data, portnum, ret, wire,
                   delivered, stdout, stderr, exitCode, calls>>

\* line 5: sock = socket.socket(AF_INET, SOCK_DGRAM), outside the try block
SocketCreate ==
    /\ pc = "socket"
    /\ IF env.sockFail
       THEN /\ exc' = "OSError"
            /\ pc' = "raised"
            /\ UNCHANGED <<sock, nfds, open, events>>
       ELSE /\ sock' = nfds + 1
            /\ nfds' = nfds + 1
            /\ open' = open \cup {nfds + 1}
            /\ events' = Append(events, Event("open", nfds + 1))
            /\ pc' = "encode"
            /\ exc' = exc
    /\ UNCHANGED <<argv, env, listener, args, data, portnum, ret, wire,
                   delivered, stdout, stderr, exitCode, calls>>

\* line 7, first argument: message.encode('utf-8')
EncodeMessage ==
    /\ pc = "encode"
    /\ LET r == EncodeUtf8(args[3])
       IN  IF r.ok
           THEN /\ data' = r.bytes
                /\ pc' = "int"
                /\ exc' = exc
           ELSE /\ exc' = "UnicodeEncodeError"
                /\ pc' = "except"
                /\ data' = data
    /\ UNCHANGED <<argv, env, listener, args, portnum, sock, nfds, open, ret,
                   wire, delivered, stdout, stderr, events, exitCode, calls>>

\* line 7, second argument: (host, int(port))
IntPort ==
    /\ pc = "int"
    /\ LET r == ParseInt(args[2])
       IN  IF r.ok
           THEN /\ portnum' = r.val
                /\ pc' = "sendto"
                /\ exc' = exc
           ELSE /\ exc' = "ValueError"
                /\ pc' = "except"
                /\ portnum' = portnum
    /\ UNCHANGED <<argv, env, listener, args, data, sock, nfds, open, ret,
                   wire, delivered, stdout, stderr, events, exitCode, calls>>

\* a send that waits for the receiver's acknowledgment
SendtoError_AwaitAck ==
    IF sock \notin open THEN "OSError"
    ELSE IF args[1] \notin Resolvable THEN "gaierror"
    ELSE IF portnum \notin 0..65535 THEN "OverflowError"
    ELSE IF env.sendFail THEN "OSError"
    ELSE IF ~listener THEN "timeout"
    ELSE "none"

\* the exception sock.sendto raises, "none" when the datagram goes out
SendtoError ==
    IF sock \notin open THEN "OSError"
    ELSE IF args[1] \notin Resolvable THEN "gaierror"
    ELSE IF portnum \notin 0..65535 THEN "OverflowError"
    ELSE IF env.sendFail THEN "OSError"
    ELSE "none"

\* a send whose system-level failure is reported after the datagram left
Sendto_Partial ==
    /\ pc = "sendto"
    /\ events' = Append(events, Event("sendto", sock))
    /\ IF SendtoError = "none" \/ (SendtoError = "OSError" /\ sock \in open)
       THEN /\ wire' = Append(wire, Datagram(sock, args[1], portnum, data))
            /\ delivered' = IF listener
                            THEN Append(delivered,
                                        Datagram(sock, args[1], portnum, data))
                            ELSE delivered
       ELSE UNCHANGED <<wire, delivered>>
    /\ IF SendtoError = "none"
       THEN /\ pc' = "return_true"
            /\ exc' = exc
       ELSE /\ exc' = SendtoError
            /\ pc' = "except"
    /\ UNCHANGED <<argv, env, listener, args, data, portnum, sock, nfds, open,
                   ret, stdout, stderr, exitCode, calls>>

\* line 7: sock.sendto(data, (host, port)); one datagram or an exception
Sendto ==
    /\ pc = "sendto"
    /\ events' = Append(events, Event("sendto", sock))
    /\ IF SendtoError = "none"
       THEN /\ wire' = Append(wire, Datagram(sock, args[1], portnum, data))
            /\ delivered' = IF listener
                            THEN Append(delivered,
                                        Datagram(sock, args[1], portnum, data))
                            ELSE delivered
            /\ pc' = "return_true"
            /\ exc' = exc
       ELSE /\ exc' = SendtoError
            /\ pc' = "except"
            /\ UNCHANGED <<wire, delivered>>
    /\ UNCHANGED <<argv, env, listener, args, data, portnum, sock, nfds, open,
                   ret, stdout, stderr, exitCode, calls>>

\* line 8: return True (the finally block runs before the caller resumes)
ReturnTrue ==
    /\ pc = "return_true"
    /\ ret' = "True"
    /\ pc' = "finally"
    /\ UNCHANGED <<argv, env, listener, args, data, portnum, sock, nfds, open,
                   exc, wire, delivered, stdout, stderr, events, exitCode,
                   calls>>

\* a handler that tries the send once more before giving up
Except_Retry ==
    /\ pc = "except"
    /\ stderr' = Append(stderr, ErrorLine(exc))
    /\ exc' = "none"
    /\ IF Cardinality({i \in 1..Len(events) : events[i].op = "sendto"}) = 1
       THEN /\ pc' = "sendto"
            /\ ret' = ret
       ELSE /\ ret' = "False"
            /\ pc' = "finally"
    /\ UNCHANGED <<argv, env, listener, args, data, portnum, sock, nfds, open,
                   wire, delivered, stdout, events, exitCode, calls>>

\* lines 9-11: except Exception as e: print(f"Error: {e}", file=sys.stderr)
Except ==
    /\ pc = "except"
    /\ stderr' = Append(stderr, ErrorLine(exc))
    /\ exc' = "none"
    /\ ret' = "False"
    /\ pc' = "finally"
    /\ UNCHANGED <<argv, env, listener, args, data, portnum, sock, nfds, open,
                   wire, delivered, stdout, events, exitCode, calls>>

\* the close placed on the success path only
Finally_OnSuccessOnly ==
    /\ pc = "finally"
    /\ IF ret = "True"
       THEN /\ open' = open \ {sock}
            /\ events' = Append(events, Event("close", sock))
       ELSE UNCHANGED <<open, events>>
    /\ pc' = "returned"
    /\ UNCHANGED <<argv, env, listener, args, data, portnum, sock, nfds, ret,
                   exc, wire, delivered, stdout, stderr, exitCode, calls>>

\* lines 12-13: finally: sock.close()
Finally ==
    /\ pc = "finally"
    /\ open' = open \ {sock}
    /\ events' = Append(events, Event("close", sock))
    /\ pc' = "returned"
    /\ UNCHANGED <<argv, env, listener, args, data, portnum, sock, nfds, ret,
                   exc, wire, delivered, stdout, stderr, exitCode, calls>>

SendUdp == SocketCreate \/ EncodeMessage \/ IntPort \/ Sendto \/ ReturnTrue
           \/ Except \/ Finally

(* ------------------------- __main__ ------------------------------------ *)

\* the test written as "too few arguments" only
ArgCountOK_AtLeast(av) == Len(av) >= 4

\* line 16: the argument count test
ArgCountOK(av) == Len(av) = 4

\* the boolean handed to sys.exit as it is (True exits 1, False exits 0)
ExitStatus_Bool(success) == IF success = "True" THEN 1 ELSE 0

\* line 25: the exit status for send_udp's result
ExitStatus(success) == IF success = "True" THEN 0 ELSE 1

\* lines 16-18: usage error
MainUsage ==
    /\ pc = "main"
    /\ ~ArgCountOK(argv)
    /\ stdout' = Append(stdout, UsageLine)
    /\ exitCode' = 1
    /\ pc' = "exit"
    /\ UNCHANGED <<argv, env, listener, args, data, portnum, sock, nfds, open,
                   ret, exc, wire, delivered, stderr, events, calls>>

\* lines 20-24: success = send_udp(host, port, message)
MainCall ==
    /\ pc = "main"
    /\ ArgCountOK(argv)
    /\ args' = <<argv[2], argv[3], argv[4]>>
    /\ pc' = "socket"
    /\ UNCHANGED <<argv, env, listener, data, portnum, sock, nfds, open, ret,
                   exc, wire, delivered, stdout, stderr, events, exitCode,
                   calls>>

\* line 25: sys.exit(0 if success else 1)
MainExit ==
    /\ pc = "returned"
    /\ exitCode' = ExitStatus(ret)
    /\ pc' = "exit"
    /\ UNCHANGED <<argv, env, listener, args, data, portnum, sock, nfds, open,
                   ret, exc, wire, delivered, stdout, stderr, events, calls>>

\* line 24 has no handler: an exception leaving send_udp ends the process
\* with a traceback and status 1
MainUncaught ==
    /\ pc = "raised"
    /\ stderr' = Append(stderr, TracebackLine(exc))
    /\ exitCode' = 1
    /\ pc' = "exit"
    /\ UNCHANGED <<argv, env, listener, args, data, portnum, sock, nfds, open,
                   ret, exc, wire, delivered, stdout, events, calls>>

(* ------------------------- environment --------------------------------- *)

\* a receiver binds the destination port, or goes away, at any time
ListenerBind ==
    /\ ~listener
    /\ pc # "exit"
    /\ listener' = TRUE
    /\ UNCHANGED <<argv, env, pc, args, data, portnum, sock, nfds, open, ret,
                   exc, wire, delivered, stdout, stderr, events, exitCode,
                   calls>>

ListenerUnbind ==
    /\ listener
    /\ pc # "exit"
    /\ listener' = FALSE
    /\ UNCHANGED <<argv, env, pc, args, data, portnum, sock, nfds, open, ret,
                   exc, wire, delivered, stdout, stderr, events, exitCode,
                   calls>>

Program == MainUsage \/ MainCall \/ SendUdp \/ MainExit \/ MainUncaught

Next == MainUsage \/ MainCall \/ SocketCreate \/ EncodeMessage \/ IntPort
        \/ Sendto \/ ReturnTrue \/ Except \/ Finally \/ MainExit
        \/ MainUncaught \/ ListenerBind \/ ListenerUnbind

Spec == Init /\ [][Next]_vars

\* the process is single-threaded and always scheduled: it takes its next
\* step whatever the environment does
FairSpec == Spec /\ WF_vars(Program)

(* ------------------- send_udp called as a function --------------------- *)

LibHosts == {Localhost, NotAPort}

LibPorts == {Port65535, NotAPort}

LibMessages == {NonAscii, EmptyText}

CallRecord(a, e, r, fd) == [args |-> a, env |-> e, result |-> r, fd |-> fd]

\* a caller that invokes send_udp several times in sequence
InitLib ==
    /\ argv = <<ProgName>>
    /\ env \in Envs
    /\ pc = "idle"
    /\ InitCommon

\* line 4: a call binds the parameters in a fresh frame
LibCall ==
    /\ pc = "idle"
    /\ Len(calls) < MaxCalls
    /\ \E h \in LibHosts, p \in LibPorts, m \in LibMessages, e \in Envs :
          /\ args' = <<h, p, m>>
          /\ env' = e
    /\ data' = <<>>
    /\ portnum' = 0
    /\ sock' = 0
    /\ ret' = "none"
    /\ exc' = "none"
    /\ pc' = "socket"
    /\ UNCHANGED <<argv, listener, nfds, open, wire, delivered, stdout,
                   stderr, events, exitCode, calls>>

\* lines 8, 11: the caller receives the boolean result
LibReturn ==
    /\ pc = "returned"
    /\ calls' = Append(calls, CallRecord(args, env, ret, sock))
    /\ pc' = "idle"
    /\ UNCHANGED <<argv, env, listener, args, data, portnum, sock, nfds, open,
                   ret, exc, wire, delivered, stdout, stderr, events, exitCode>>

\* line 5: the caller receives the exception of socket.socket
LibRaised ==
    /\ pc = "raised"
    /\ calls' = Append(calls, CallRecord(args, env, "raised", sock))
    /\ exc' = "none"
    /\ pc' = "idle"
    /\ UNCHANGED <<argv, env, listener, args, data, portnum, sock, nfds, open,
                   ret, wire, delivered, stdout, stderr, events, exitCode>>

NextLib == LibCall \/ SocketCreate \/ EncodeMessage \/ IntPort \/ Sendto
           \/ ReturnTrue \/ Except \/ Finally \/ LibReturn \/ LibRaised

SpecLib == InitLib /\ [][NextLib]_vars

(* ======================= properties ===================================== *)

\* strict UTF-8 decoding, written from the encoding's definition: the code
\* points a byte sequence stands for, <<-1>> when it is not valid UTF-8
RECURSIVE DecodeUtf8(_)
DecodeUtf8(b) ==
    LET Cont(i) == i <= Len(b) /\ b[i] \in 128..191
        Rest(n, c) ==
            LET r == DecodeUtf8(SubSeq(b, n + 1, Len(b)))
            IN  IF r = <<-1>> THEN <<-1>> ELSE <<c>> \o r
    IN  IF b = <<>> THEN <<>>
        ELSE IF b[1] < 128 THEN Rest(1, b[1])
        ELSE IF b[1] \in 194..223 /\ Cont(2)
             THEN Rest(2, (b[1] - 192) * 64 + (b[2] - 128))
        ELSE IF b[1] \in 224..239 /\ Cont(2) /\ Cont(3)
             THEN LET c == (b[1] - 224) * 4096 + (b[2] - 128) * 64 + (b[3] - 128)
                  IN  IF c >= 2048 /\ c \notin 55296..57343
                      THEN Rest(3, c) ELSE <<-1>>
        ELSE IF b[1] \in 240..244 /\ Cont(2) /\ Cont(3) /\ Cont(4)
             THEN LET c == (b[1] - 240) * 262144 + (b[2] - 128) * 4096
                           + (b[3] - 128) * 64 + (b[4] - 128)
                  IN  IF c >= 65536 /\ c <= 1114111 THEN Rest(4, c) ELSE <<-1>>
        ELSE <<-1>>

CountOp(op) == Cardinality({i \in 1..Len(events) : events[i].op = op})

ErrorLines == {i \in 1..Len(stderr) : stderr[i].prefix = "Error: "}

TracebackLines == {i \in 1..Len(stderr) : stderr[i].prefix = "Traceback"}

\* send_udp has been left, by a return or by an exception
Left == pc \in {"returned", "raised", "exit", "idle"} /\ Len(args) = 3

PortInRange(p) == ParseInt(p).ok /\ ParseInt(p).val >= 0 /\ ParseInt(p).val <= 65535

Encodable(m) == \A i \in 1..Len(m) : m[i] < 55296 \/ m[i] > 57343

\* the outcome of one send attempt as a function of the arguments and of the
\* two things the local system decides; no receiver appears in it
ResultFor(a, e) ==
    IF e.sockFail THEN "raised"
    ELSE IF Encodable(a[3]) /\ PortInRange(a[2]) /\ a[1] \in Resolvable
            /\ ~e.sendFail
    THEN "True" ELSE "False"

(* ----------------------------- C1 --------------------------------------- *)

\* C1: when the command line does not hold exactly three positional
\* arguments (len(sys.argv) # 4) no socket is ever opened, send_udp is never
\* entered and nothing is sent, and the process ends with the usage line on
\* standard output and exit code 1.
C1_UsageError ==
    /\ [](Len(argv) # 4 =>
            /\ nfds = 0 /\ open = {} /\ events = <<>> /\ wire = <<>>
            /\ args = <<>> /\ pc \in {"main", "exit"}
            /\ stderr = <<>>
            /\ (pc = "exit" => exitCode = 1 /\ stdout = <<UsageLine>>))
    /\ ((Len(argv) # 4) ~> (pc = "exit" /\ exitCode = 1 /\ stdout = <<UsageLine>>))

C1_Witness ==
    /\ pc = "exit" /\ Len(argv) = 5 /\ exitCode = 1
    /\ stdout = <<UsageLine>> /\ nfds = 0

(* ----------------------------- C2 --------------------------------------- *)

\* C2: send_udp never lets an exception reach its caller: every failure of
\* socket creation, resolution, port parsing, encoding or the send ends in a
\* False result with an "Error: ..." line on the error stream.
C2_NeverPropagates ==
    /\ pc # "raised"
    /\ (Left /\ ret # "True" => ret = "False" /\ ErrorLines # {})

(* ----------------------------- C3 --------------------------------------- *)

\* C3: whenever send_udp has been left, by a return or by an exception, and
\* in every terminal state of the process, no socket it opened is open.
C3_SocketClosed ==
    (pc \in {"returned", "raised", "exit"}) => open = {}

C3_Witness ==
    /\ pc = "exit" /\ exitCode = 1 /\ ret = "False"
    /\ nfds = 1 /\ open = {} /\ CountOp("close") = 1

(* ----------------------------- C4 --------------------------------------- *)

\* C4: the only exit codes are 0 and 1; with exactly three positional
\* arguments the code is 0 exactly when send_udp returned True, and with any
\* other argument count it is 1.
C4_ExitCode ==
    /\ exitCode \in {-1, 0, 1}
    /\ (pc = "exit") <=> (exitCode # -1)
    /\ (pc = "exit" /\ Len(argv) = 4 => ((exitCode = 0) <=> (ret = "True")))
    /\ (pc = "exit" /\ Len(argv) # 4 => exitCode = 1)

C4_Witness ==
    /\ pc = "exit" /\ exitCode = 0 /\ ret = "True" /\ Len(argv) = 4

(* ----------------------------- C5 --------------------------------------- *)

\* the one datagram the claim describes: sent to (host, int(port)), its
\* payload decoding as UTF-8 to exactly the message, empty for the empty
\* message
OneDatagramOf(a) ==
    /\ ret = "True"
    /\ Len(wire) = 1
    /\ wire[1].host = a[1]
    /\ wire[1].port = ParseInt(a[2]).val
    /\ DecodeUtf8(wire[1].payload) = a[3]
    /\ (a[3] = <<>> => wire[1].payload = <<>>)

\* C5 as stated: for every (host, port, message) with a port text that parses
\* to 0..65535, a host that resolves and a send that does not fail, send_udp
\* returns True and emits exactly one datagram to (host, int(port)) whose
\* payload is the UTF-8 encoding of the message.
C5_AsStated ==
    (Left /\ PortInRange(args[2]) /\ args[1] \in Resolvable /\ ~env.sendFail)
        => OneDatagramOf(args)

\* C5 amended: the same, provided also that the socket could be created and
\* the message has a UTF-8 encoding (no lone surrogate code point).
C5_SendsOneDatagram ==
    (Left /\ PortInRange(args[2]) /\ args[1] \in Resolvable /\ ~env.sendFail
          /\ ~env.sockFail /\ Encodable(args[3]))
        => OneDatagramOf(args)

C5_Witness ==
    /\ pc = "exit" /\ exitCode = 0 /\ ret = "True"
    /\ args = <<Localhost, Port65535, NonAscii>>
    /\ wire = <<Datagram(1, Localhost, 65535,
                         <<195, 169, 226, 130, 172, 240, 159, 152, 128>>)>>

(* ----------------------------- C6 --------------------------------------- *)

\* C6: with a port argument int() cannot parse, whatever the host and the
\* message, the process ends with send_udp having returned False, an error
\* line on the error stream, exit code 1, no uncaught exception and no
\* datagram.
C6_BadPortFailsGracefully ==
    (pc = "exit" /\ Len(argv) = 4 /\ ~ParseInt(argv[3]).ok)
        => /\ ret = "False"
           /\ ErrorLines # {}
           /\ TracebackLines = {}
           /\ exitCode = 1
           /\ wire = <<>>

(* ----------------------------- C7 --------------------------------------- *)

\* C7 as stated: once send_udp has been left, either a datagram was sent and
\* the result is True, or sendto was never attempted; a False result means
\* no sendto call was made.
C7_AsStated ==
    Left => \/ (ret = "True" /\ Len(wire) = 1)
            \/ (CountOp("sendto") = 0 /\ wire = <<>>)

\* C7 amended: once send_udp has been left, either exactly one datagram was
\* sent and the result is True, or no datagram left the host; a False result
\* means nothing was sent, though sendto may have been called and have failed.
C7_NoPartialSuccess ==
    /\ Len(wire) <= CountOp("sendto")
    /\ Left => \/ (ret = "True" /\ Len(wire) = 1 /\ CountOp("sendto") = 1)
               \/ (ret # "True" /\ wire = <<>>)

C7_Witness ==
    /\ pc = "exit" /\ ret = "False" /\ CountOp("sendto") = 1 /\ wire = <<>>
    /\ env.sendFail

(* ----------------------------- C8 --------------------------------------- *)

\* C8: the result of send_udp and the exit code are a function of the
\* arguments and of the local system's answers alone: whether a receiver is
\* bound, and whether the datagram is delivered, changes neither, and the
\* program performs no network operation other than open, sendto and close.
C8_FireAndForget ==
    /\ \A i \in 1..Len(events) : events[i].op \in {"open", "sendto", "close"}
    /\ (pc = "exit" /\ Len(argv) = 4) =>
          /\ (ResultFor(args, env) = "raised" <=> ret = "none")
          /\ (ResultFor(args, env) # "raised" => ret = ResultFor(args, env))
          /\ exitCode = (IF ResultFor(args, env) = "True" THEN 0 ELSE 1)

C8_Witness ==
    /\ pc = "exit" /\ exitCode = 0 /\ ret = "True"
    /\ Len(wire) = 1 /\ delivered = <<>> /\ ~listener

(* ----------------------------- C9 --------------------------------------- *)

\* C9: no state carries over between calls: every call's result is the one
\* its own arguments and the system's answers give, whatever was called
\* before; two successful calls with the same arguments emit two datagrams
\* with identical payloads, each on its own socket, opened for that call
\* and closed when the call returns.
C9_NoCarryOver ==
    /\ \A j \in 1..Len(calls) : calls[j].result = ResultFor(calls[j].args, calls[j].env)
    /\ \A i \in 1..Len(calls) : \A j \in 1..Len(calls) :
          (i < j /\ calls[i].args = calls[j].args
                 /\ calls[i].result = "True" /\ calls[j].result = "True")
            => /\ calls[i].fd # calls[j].fd
               /\ calls[i].fd \notin open
               /\ (pc = "idle" => calls[j].fd \notin open)
               /\ \E k \in 1..Len(wire) : \E l \in 1..Len(wire) :
                     /\ k < l
                     /\ wire[k].fd = calls[i].fd
                     /\ wire[l].fd = calls[j].fd
                     /\ wire[k].payload = wire[l].payload
                     /\ wire[k].host = wire[l].host
                     /\ wire[k].port = wire[l].port
    /\ (pc = "idle" =>
          /\ Len(wire) = Cardinality({j \in 1..Len(calls) : calls[j].result = "True"})
          /\ open = {})

C9_Witness ==
    /\ pc = "idle" /\ Len(calls) = 2
    /\ calls[1].args = <<Localhost, Port65535, NonAscii>>
    /\ calls[2].args = calls[1].args
    /\ calls[1].result = "True" /\ calls[2].result = "True"
    /\ Len(wire) = 2 /\ wire[1].payload = wire[2].payload
    /\ wire[1].fd = 1 /\ wire[2].fd = 2

(* ----------------------------- C10 -------------------------------------- *)

Pos(op) == CHOOSE i \in 1..Len(events) : events[i].op = op

\* C10: the network events of a run are ordered and bounded: at most one
\* socket is opened, at most one sendto is issued and it is issued on that
\* socket after the open and before the close, the socket is closed once,
\* before the process exits, and a failed attempt is never followed by a
\* second sendto.
C10_EventOrder ==
    /\ CountOp("open") <= 1
    /\ CountOp("sendto") <= 1
    /\ CountOp("close") <= CountOp("open")
    /\ \A i \in 1..Len(events) : events[i].fd = 1
    /\ (CountOp("sendto") = 1 =>
          /\ CountOp("open") = 1 /\ Pos("open") < Pos("sendto")
          /\ (CountOp("close") = 1 => Pos("sendto") < Pos("close")))
    /\ (CountOp("close") = 1 => Pos("open") < Pos("close"))
    /\ (pc = "exit" => CountOp("close") = CountOp("open"))
    /\ (ret = "False" => CountOp("sendto") <= 1)

C10_Witness ==
    /\ pc = "exit" /\ ret = "False"
    /\ events = <<Event("open", 1), Event("sendto", 1), Event("close", 1)>>

====
